---- MODULE Spec2Model ----
(***************************************************************************)
(* A model of scripts/code.js: the Google Apps Script that refreshes the   *)
(* "buffer" sheet of stock quotes (updateMasterList, URLFromExchange,      *)
(* lookupQuote, getTimeNow).                                               *)
(*                                                                         *)
(* Strings are sequences of one-character strings.  A page body is a       *)
(* sequence of tokens: ordinary characters, plus the two tokens            *)
(*   "M"  for the text  <span class="Trsdu   (the marker of regex 1)       *)
(*   "E"  for the text  </span>              (the closer of regex 1)       *)
(* "x" is any character that no pattern of the script mentions, "n" is a   *)
(* line terminator (which the regex dot does not match).                   *)
(*                                                                         *)
(* Numbers are records [k, m, e]: k = "num" is the number m / 10^e, kept   *)
(* normalised (no trailing zero in the fraction); k = "nan" is the         *)
(* JavaScript NaN; k = "empty" is an empty spreadsheet cell.               *)
(***************************************************************************)
EXTENDS Integers, Sequences, FiniteSets, TLC

\* ------------------------------------------------------------------ bounds

\* rows of the portfolio on the sheet (the LASTROW cell holds MaxRows + 1)
MaxRows == 2

\* runs of updateMasterList that are started (the trigger fires this often)
MaxRuns == 2

\* Math.random() takes the values r / RandomSteps, r \in 0 .. RandomSteps-1
RandomSteps == 2000

\* the longest text between '>' and '<' that the extraction is applied to
MaxText == 4

\* the most pieces of markup a page the extraction is applied to is made of
MaxPieces == 2

\* ------------------------------------------------------------- JS numbers

Num(m, e) == [k |-> "num", m |-> m, e |-> e]

NaN == [k |-> "nan", m |-> 0, e |-> 0]

EmptyCell == [k |-> "empty", m |-> 0, e |-> 0]

\* no value: the result of a call that threw
Undefined == [k |-> "undef", m |-> 0, e |-> 0]

\* the value lookupQuote returns from its catch block
Sentinel == Num(-1, 0)

IsFinite(v) == v.k = "num"

RECURSIVE Pow10(_)
Pow10(e) == IF e = 0 THEN 1 ELSE 10 * Pow10(e - 1)

\* the one representation of m / 10^e
RECURSIVE Normalize(_, _)
Normalize(m, e) ==
    IF e > 0 /\ m % 10 = 0 THEN Normalize(m \div 10, e - 1) ELSE Num(m, e)

\* JavaScript's == on two numbers: NaN is equal to nothing, itself included
NumEq(a, b) == a.k = "num" /\ b.k = "num" /\ a.m = b.m /\ a.e = b.e

\* ------------------------------------------------------------- JS strings

DigitChars == <<"0", "1", "2", "3", "4", "5", "6", "7", "8", "9">>

IsDigit(c) == \E d \in 1..10 : DigitChars[d] = c

DigitVal(c) == (CHOOSE d \in 1..10 : DigitChars[d] = c) - 1

\* the longest prefix of s made of digits
RECURSIVE DigitPrefix(_)
DigitPrefix(s) ==
    IF s # <<>> /\ IsDigit(Head(s)) THEN <<Head(s)>> \o DigitPrefix(Tail(s)) ELSE <<>>

Drop(s, n) == SubSeq(s, n + 1, Len(s))

RECURSIVE DigitsToInt(_)
DigitsToInt(s) ==
    IF s = <<>> THEN 0
    ELSE 10 * DigitsToInt(SubSeq(s, 1, Len(s) - 1)) + DigitVal(s[Len(s)])

RECURSIVE IntToDigits(_)
IntToDigits(i) ==
    IF i < 10 THEN <<DigitChars[i + 1]>>
    ELSE IntToDigits(i \div 10) \o <<DigitChars[(i % 10) + 1]>>

\* i written with exactly w digits (zero padded on the left)
RECURSIVE PadDigits(_, _)
PadDigits(i, w) ==
    IF w = 0 THEN <<>> ELSE PadDigits(i \div 10, w - 1) \o <<DigitChars[(i % 10) + 1]>>

\* String(v) of a number: "NaN", or the shortest decimal that reads back as v
\* (the values of the model are far from the 1e21 and 1e-7 limits past which
\* JavaScript switches to exponent notation)
NumberToString(v) ==
    IF v.k = "nan" THEN <<"N", "a", "N">>
    ELSE LET a == IF v.m < 0 THEN 0 - v.m ELSE v.m
             sign == IF v.m < 0 THEN <<"-">> ELSE <<>>
             ip == IntToDigits(a \div Pow10(v.e))
             fp == IF v.e = 0 THEN <<>> ELSE <<".">> \o PadDigits(a % Pow10(v.e), v.e)
         IN sign \o ip \o fp

\* String(arr) of a one-element array [v]: the element's own string
ArrayToString(arr) == NumberToString(arr[1])

\* The decimal literal at the start of s, as parseFloat reads it:
\* [ok, val, used]: an optional sign, digits, an optional fraction.
\* (No string of the model holds an exponent part or the word Infinity.)
ScanDecimal(s) ==
    LET signed == s # <<>> /\ Head(s) \in {"-", "+"}
        neg == s # <<>> /\ Head(s) = "-"
        r0 == IF signed THEN Tail(s) ELSE s
        ip == DigitPrefix(r0)
        r1 == Drop(r0, Len(ip))
        dot == r1 # <<>> /\ Head(r1) = "."
        fp == IF dot THEN DigitPrefix(Tail(r1)) ELSE <<>>
        ok == Len(ip) + Len(fp) > 0
        \* "5." is read whole; in ".x" nothing is read
        used == (IF signed THEN 1 ELSE 0) + Len(ip)
                + (IF dot /\ ok THEN 1 + Len(fp) ELSE 0)
        mag == DigitsToInt(ip \o fp)
        val == Normalize(IF neg THEN 0 - mag ELSE mag, Len(fp))
    IN [ok |-> ok, val |-> val, used |-> used]

\* parseFloat(s): the number written by the longest numeric prefix, else NaN
parseFloat(s) == IF ScanDecimal(s).ok THEN ScanDecimal(s).val ELSE NaN

\* ToNumber(s), the conversion == applies to a string compared with a number:
\* the whole string must be a numeric literal; the empty string is 0
StringToNumber(s) ==
    IF s = <<>> THEN Num(0, 0)
    ELSE IF ScanDecimal(s).ok /\ ScanDecimal(s).used = Len(s) THEN ScanDecimal(s).val
    ELSE NaN

\* s.replace(c, ''): the FIRST occurrence of the character c is removed
RECURSIVE ReplaceFirst(_, _)
ReplaceFirst(s, c) ==
    IF s = <<>> THEN <<>>
    ELSE IF Head(s) = c THEN Tail(s)
    ELSE <<Head(s)>> \o ReplaceFirst(Tail(s), c)

\* ------------------------------------------------- the regular expressions

\* a class that takes the minus sign too: [\d\.\,\-]
IsNumCharOrSign(c) == IsDigit(c) \/ c \in {".", ",", "-"}

\* the characters of the class [\d\.\,]
IsNumChar(c) == IsDigit(c) \/ c \in {".", ","}

\* the dot of a JavaScript regex matches every character but a line terminator
DotMatches(c) == c # "n"

\* the token's text ends with '>' / starts with '<'
EndsWithGT(c) == c \in {">", "E"}

StartsWithLT(c) == c \in {"<", "M", "E"}

NoMatch == [found |-> FALSE, text |-> <<>>]

\* regex 1 matches at p and ends at q: marker at p, closer at q, only dot
\* characters and no earlier closer between them (the lazy .*? stops at the
\* first closer it can reach)
Regex1MatchAt(html, p, q) ==
    /\ html[p] = "M"
    /\ html[q] = "E"
    /\ \A j \in (p + 1)..(q - 1) : DotMatches(html[j]) /\ html[j] # "E"

\* the pattern with a greedy .* : the leftmost match runs to the last closer
\* that only dot characters separate from the marker
Regex1Greedy(html) ==
    LET Reaches(p, q) == /\ html[p] = "M"
                         /\ html[q] = "E"
                         /\ \A j \in (p + 1)..(q - 1) : DotMatches(html[j])
        starts == {p \in 1..Len(html) : \E q \in (p + 1)..Len(html) : Reaches(p, q)}
    IN IF starts = {} THEN NoMatch
       ELSE LET p == CHOOSE a \in starts : \A b \in starts : a <= b
                ends == {c \in (p + 1)..Len(html) : Reaches(p, c)}
                q == CHOOSE c \in ends : \A d \in ends : c >= d
            IN [found |-> TRUE, text |-> SubSeq(html, p, q)]

\* /(<span class="Trsdu)(.*?)(<\/span>)/.exec(html): the leftmost match
Regex1(html) ==
    LET starts == {p \in 1..Len(html) : \E q \in (p + 1)..Len(html) : Regex1MatchAt(html, p, q)}
    IN IF starts = {} THEN NoMatch
       ELSE LET p == CHOOSE a \in starts : \A b \in starts : a <= b
                q == CHOOSE c \in (p + 1)..Len(html) : Regex1MatchAt(html, p, c)
            IN [found |-> TRUE, text |-> SubSeq(html, p, q)]

\* regex 2 matches at a and ends at b: '>' at a, '<' at b, class characters
\* between them
Regex2MatchAt(s, a, b) ==
    /\ EndsWithGT(s[a])
    /\ StartsWithLT(s[b])
    /\ \A j \in (a + 1)..(b - 1) : IsNumChar(s[j])

\* /(\>)([\d\.\,]*)(\<)/.exec(s): the leftmost match; element [0] is the
\* matched characters, '>' and '<' included
Regex2(s) ==
    LET starts == {a \in 1..Len(s) : \E b \in (a + 1)..Len(s) : Regex2MatchAt(s, a, b)}
    IN IF starts = {} THEN NoMatch
       ELSE LET a == CHOOSE x \in starts : \A y \in starts : x <= y
                b == CHOOSE c \in (a + 1)..Len(s) : Regex2MatchAt(s, a, c)
            IN [found |-> TRUE, text |-> <<">">> \o SubSeq(s, a + 1, b - 1) \o <<"<">>]

\* finalMatch.replace('<','').replace('>','').replace(',','')
CleanMatch(finalMatch) ==
    ReplaceFirst(ReplaceFirst(ReplaceFirst(finalMatch, "<"), ">"), ",")

\* lookupQuote after the page has loaded (lines 140-152):
\* [threw, val]: indexing a null match result throws a TypeError, which
\* nothing in lookupQuote catches (the try block ended on line 133)
ExtractQuote(html) ==
    LET initMatch == Regex1(html)
    IN IF ~initMatch.found THEN [threw |-> TRUE, val |-> NaN]
       ELSE LET finalMatch == Regex2(initMatch.text)
            IN IF ~finalMatch.found THEN [threw |-> TRUE, val |-> NaN]
               ELSE [threw |-> FALSE, val |-> parseFloat(CleanMatch(finalMatch.text))]

\* ------------------------------------------------------- the sheet "buffer"

\* the script runs from a time trigger; two executions may overlap
Procs == {1, 2}

\* text in a cell; a number in a cell is a Num
Text(s) == [k |-> "text", s |-> s]

\* rows A..D of the tutorial's sheet: the symbol (a number for a Hong Kong
\* stock) and the exchange
Portfolio ==
    << [symbol |-> Text(<<"E", "S", "3">>), exchange |-> Text(<<"S", "G", "X">>)],
       [symbol |-> Num(2388, 0), exchange |-> Text(<<"H", "K", "E", "X">>)],
       [symbol |-> Text(<<"D", "I", "S">>), exchange |-> Text(<<"U", "S", "A">>)],
       [symbol |-> Num(601318, 0), exchange |-> Text(<<"X", "S", "S", "C">>)] >>

\* row 1 is the header row; one more row lies under the longest portfolio
SheetRows == 1..(MaxRows + 2)

HeaderCell == Text(<<"h">>)

PortfolioRow(r) == Portfolio[((r - 2) % Len(Portfolio)) + 1]

\* String(cell) for a cell read by getValues()
CellToString(c) == IF c.k = "text" THEN c.s ELSE NumberToString(c)

\* ---------------------------------------------------------------- the web

\* pages the quote server may answer with
PagePriceA == <<"x", "M", "x", ">", "2", "8", ".", "2", "0", "0", "E", "x">>

PagePriceB == <<"M", "x", ">", "1", ",", "0", "0", "1", ".", "5", "0", "E">>

\* the markup changed: no span of class Trsdu
PageNoMarker == <<"x", ">", "7", "<", "x">>

\* the span holds no '>' number '<'
PageNoNumber == <<"M", "x", ">", "x", "E">>

\* the span is there and empty (the price is filled in later by the page's script)
PageEmptyPrice == <<"x", "M", "x", ">", "E">>

\* the body of an error page; it quotes a price too
PageError == <<"M", ">", "4", "0", "4", "E">>

Bodies == {PagePriceA, PagePriceB, PageNoMarker, PageNoNumber, PageEmptyPrice}

Response(code, body) == [code |-> code, body |-> body]

\* var page before the first assignment
NoPage == Response(0, <<>>)

\* what UrlFetchApp.fetch may return (muteHttpExceptions: a 404 is returned,
\* not thrown); it may also throw (DNS failure, timeout, quota)
Responses == {Response(200, b) : b \in Bodies} \cup {Response(404, PageError)}

\* ------------------------------------------------------------------- state

VARIABLES
    symbolCol,      \* column A, by sheet row
    exchangeCol,    \* column D
    newPriceCol,    \* column F, "new_price"
    bufferedCol,    \* column G, "buffered_price"
    lastrowCell,    \* K1, LASTROW=
    timestampCell,  \* K2, LASTRUN=
    clock,          \* the wall clock, in runs started
    pc,             \* per execution: where updateMasterList stands
    loc,            \* per execution: its local variables
    verdict,        \* history: per execution, how each lookup of its run ended, in call order:
                    \*   mode and val (LookupVerdict), the path of the URL, the value returned
    before,         \* history: per execution, column G when the run began
    attempts,       \* history: per execution, the fetches of the lookup under way (0: it threw)
    lastGood,       \* history: by sheet row, the price of the latest lookup of the row that
                    \*   found one (the content of column G before the first)
    hist,           \* history: run[p] the number of execution p's run (0: none yet), and
                    \*   the numbers of the runs that last wrote K2 (ts) and column F (np)
    probe           \* one call of a function of the script on its own: the arguments,
                    \*   and the result once it has returned (done)

sheetVars == <<symbolCol, exchangeCol, newPriceCol, bufferedCol, lastrowCell, timestampCell>>

vars == <<symbolCol, exchangeCol, newPriceCol, bufferedCol, lastrowCell, timestampCell,
          clock, pc, loc, verdict, before, attempts, lastGood, hist, probe>>

NoLocals ==
    [lastrow |-> 0, symbols |-> <<>>, exchange |-> <<>>, prices |-> <<>>,
     i |-> 0, url |-> [path |-> <<>>, p |-> 0], n |-> 0, page |-> NoPage,
     err |-> FALSE, k |-> 0]

\* a sheet with n portfolio rows, before the first run
FreshSheet(n) ==
    /\ symbolCol = [r \in SheetRows |->
           IF r = 1 THEN HeaderCell
           ELSE IF r <= n + 1 THEN PortfolioRow(r).symbol ELSE EmptyCell]
    /\ exchangeCol = [r \in SheetRows |->
           IF r = 1 THEN HeaderCell
           ELSE IF r <= n + 1 THEN PortfolioRow(r).exchange ELSE EmptyCell]
    /\ newPriceCol = [r \in SheetRows |-> IF r = 1 THEN HeaderCell ELSE EmptyCell]
    /\ bufferedCol = [r \in SheetRows |-> IF r = 1 THEN HeaderCell ELSE EmptyCell]
    /\ lastrowCell = Num(n + 1, 0)
    /\ timestampCell = EmptyCell

\* no call of a function on its own
NoProbe ==
    [fn |-> "none", symbol |-> <<>>, exchange |-> <<>>, html |-> <<>>, done |-> FALSE,
     url |-> [path |-> <<>>, p |-> 0], quote |-> [threw |-> FALSE, val |-> NaN]]

\* no run has begun
NoRunYet ==
    /\ clock = 0
    /\ pc = [p \in Procs |-> "idle"]
    /\ loc = [p \in Procs |-> NoLocals]
    /\ verdict = [p \in Procs |-> <<>>]
    /\ before = [p \in Procs |-> bufferedCol]
    /\ attempts = [p \in Procs |-> <<>>]
    /\ lastGood = bufferedCol
    /\ hist = [run |-> [p \in Procs |-> 0], ts |-> 0, np |-> 0]

Init ==
    /\ \E n \in 1..MaxRows : FreshSheet(n)
    /\ NoRunYet
    /\ probe = NoProbe

\* ------------------------------------------------------------ the functions

\* a stamp of the date alone: t.toLocaleDateString()
getDateNow(t) == Text(IntToDigits(t \div 24))

\* getTimeNow(): t.toLocaleTimeString() + ' ' + t.toLocaleDateString(), for
\* the clock reading t (one tick an hour)
getTimeNow(t) == Text(IntToDigits(t % 24) \o <<":", "0", "0", " ">> \o IntToDigits(t \div 24))

\* parseInt(cell value) of a numeric cell: the integer part
parseInt(c) == c.m \div Pow10(c.e)

\* the switch without its break statements: every case runs on into the last
ExchangeSuffixFallThrough(exchange) ==
    IF exchange \in {<<"U", "S", "A">>, <<"S", "G", "X">>, <<"H", "K", "E", "X">>,
                     <<"X", "S", "S", "C">>}
    THEN <<".", "S", "S">>
    ELSE <<>>

\* the switch of URLFromExchange; no case matches any other exchange and the
\* suffix stays ''
ExchangeSuffix(exchange) ==
    CASE exchange = <<"U", "S", "A">> -> <<>>
      [] exchange = <<"S", "G", "X">> -> <<".", "S", "I">>
      [] exchange = <<"H", "K", "E", "X">> -> <<".", "H", "K">>
      [] exchange = <<"X", "S", "S", "C">> -> <<".", "S", "S">>
      [] OTHER -> <<>>

\* Math.round(Math.random()*1000)
CacheBusterRounded(r) == (2 * r * 1000 + RandomSteps) \div (2 * RandomSteps)

\* Math.floor(Math.random()*1000) for Math.random() = r / RandomSteps
CacheBuster(r) == (r * 1000) \div RandomSteps

\* the draws a run is followed with: the least and the greatest
RandomDraws == {0, RandomSteps - 1}

\* 'https://finance.yahoo.com/quote/' + symbol + suffix + '?p=' + <random>:
\* what follows the fixed prefix, and the number after '?p='
URLFromExchange(symbol, exchange, r) ==
    [path |-> symbol \o ExchangeSuffix(exchange), p |-> CacheBuster(r)]

\* for (var n=0;n<3;n++)
MaxAttempts == 3

\* a try block inside the loop: a fetch that throws on pass n is one more
\* failed attempt
ThrowTargetRetry(n) == IF n + 1 < MaxAttempts THEN "fetch" ELSE "after"

\* where a throw of the fetch on pass n leads: the try block (lines 120-133)
\* encloses the whole loop, so to the catch block, out of the loop
ThrowTarget(n) == "after"

\* a catch block that returns 0
CatchReturnsZero == Num(0, 0)

\* return -1 of the catch block (line 137)
CatchReturn == Sentinel

\* a lookup that parses whatever page came last
NeverFailedToLoad(page) == FALSE

\* a retry loop without its break
NeverBreaks(page) == FALSE

\* if (page.getResponseCode() == 200) break
BreaksLoop(page) == page.code = 200

\* if (page.getResponseCode() != 200) throw ...
FailedToLoad(page) == page.code # 200

\* a write loop without its test: every collected result is written
AlwaysWrites(entry) == TRUE

\* prices[k] != -1, for the one-element array prices[k]: the array is
\* converted to its string and the string to a number
NotSentinel(entry) == ~NumEq(StringToNumber(ArrayToString(entry)), Sentinel)

\* getRange(3+k, 7): the buffered column written one row too low
BufferRowShifted(k) == 3 + k

\* the sheet row of getRange(2+k, 7)
BufferRow(k) == 2 + k

\* getRange(3, c, lastrow-1, 1): the ranges taken one row too low
RangeRowShifted(j) == 3 + j

\* the sheet row that getRange(2, c, lastrow-1, 1) pairs with array index j
RangeRow(j) == 2 + j

\* how a lookup ended, told from what the server did: the failure modes of
\* the specification, or "ok" with the price the page shows
LookupVerdict(err, page) ==
    IF err THEN [mode |-> "transport", val |-> NaN]
    ELSE IF page.code # 200 THEN [mode |-> "exhausted", val |-> NaN]
    ELSE IF ~Regex1(page.body).found THEN [mode |-> "notfound", val |-> NaN]
    ELSE IF ~Regex2(Regex1(page.body).text).found THEN [mode |-> "notfound", val |-> NaN]
    ELSE LET v == parseFloat(CleanMatch(Regex2(Regex1(page.body).text).text))
         IN IF v.k = "nan" THEN [mode |-> "malformed", val |-> NaN]
            ELSE [mode |-> "ok", val |-> v]

\* ExtractQuote and LookupVerdict of every body the server sends, computed
\* once (the empty body is that of NoPage)
KnownBodies == Bodies \cup {PageError, <<>>}

ExtractTable == [b \in KnownBodies |-> ExtractQuote(b)]

VerdictTable == [b \in KnownBodies |-> LookupVerdict(FALSE, Response(200, b))]

VerdictOf(err, page) ==
    IF err \/ page.code # 200 THEN LookupVerdict(err, page) ELSE VerdictTable[page.body]

\* ------------------------------------------------------------- the actions

Resting(p) == pc[p] \in {"idle", "done", "aborted"}

\* updateMasterList, lines 17-43: read LASTROW, stamp the time, read the inputs
BeginRun(p) ==
    /\ Resting(p)
    /\ clock < MaxRuns
    /\ clock' = clock + 1
    /\ timestampCell' = getTimeNow(clock')
    /\ LET lastrow == parseInt(lastrowCell)
           symbols == [j \in 1..(lastrow - 1) |-> <<symbolCol[RangeRow(j - 1)]>>]
           exchange == [j \in 1..(lastrow - 1) |-> <<exchangeCol[RangeRow(j - 1)]>>]
       IN loc' = [loc EXCEPT ![p] =
              [NoLocals EXCEPT !.lastrow = lastrow, !.symbols = symbols,
                               !.exchange = exchange,
                               !.prices = [j \in 1..Len(symbols) |-> <<>>]]]
    /\ pc' = [pc EXCEPT ![p] = "loop"]
    /\ verdict' = [verdict EXCEPT ![p] = <<>>]
    /\ before' = [before EXCEPT ![p] = bufferedCol]
    /\ attempts' = [attempts EXCEPT ![p] = <<>>]
    /\ hist' = [hist EXCEPT !.run[p] = clock', !.ts = clock']
    /\ UNCHANGED <<symbolCol, exchangeCol, newPriceCol, bufferedCol, lastrowCell, lastGood, probe>>

\* a loop that stops one row early: i < symbols.length - 1
LoopStopsEarly(i, symbols) == i < Len(symbols) - 1

\* the test of the for loop (line 49): i < symbols.length
LoopGoesOn(i, symbols) == i < Len(symbols)

\* the head of the for loop (line 49); lines 51-55 and the entry of
\* lookupQuote when a row is left, else on to line 66
NextRow(p) ==
    /\ pc[p] = "loop"
    /\ IF LoopGoesOn(loc[p].i, loc[p].symbols)
       THEN \E r \in RandomDraws :
              /\ loc' = [loc EXCEPT
                     ![p].url = URLFromExchange(CellToString(loc[p].symbols[loc[p].i + 1][1]),
                                                CellToString(loc[p].exchange[loc[p].i + 1][1]), r),
                     ![p].n = 0, ![p].page = NoPage, ![p].err = FALSE]
              /\ pc' = [pc EXCEPT ![p] = "fetch"]
       ELSE /\ pc' = [pc EXCEPT ![p] = "write"]
            /\ loc' = loc
    /\ UNCHANGED <<sheetVars, clock, verdict, before, attempts, lastGood, hist, probe>>

\* one pass of the retry loop (lines 122-128): the fetch throws, or returns a
\* response that ends the loop or not
FetchAttempt(p) ==
    /\ pc[p] = "fetch"
    /\ \/ /\ loc' = [loc EXCEPT ![p].err = TRUE]
          /\ attempts' = [attempts EXCEPT ![p] = Append(@, 0)]
          /\ pc' = [pc EXCEPT ![p] = ThrowTarget(loc[p].n)]
       \/ \E resp \in Responses :
            /\ attempts' = [attempts EXCEPT ![p] = Append(@, resp.code)]
            /\ IF BreaksLoop(resp)
               THEN /\ loc' = [loc EXCEPT ![p].page = resp]
                    /\ pc' = [pc EXCEPT ![p] = "after"]
               ELSE /\ loc' = [loc EXCEPT ![p].page = resp, ![p].n = @ + 1]
                    /\ pc' = [pc EXCEPT ![p] =
                           IF loc[p].n + 1 < MaxAttempts THEN "fetch" ELSE "after"]
    /\ UNCHANGED <<sheetVars, clock, verdict, before, lastGood, hist, probe>>

\* lookupQuote from line 129 to its return, and lines 59-62 of the caller:
\* the catch block returns -1; a page that loaded is parsed, and a TypeError
\* thrown there ends updateMasterList
FinishLookup(p) ==
    /\ pc[p] = "after"
    /\ LET failed == loc[p].err \/ FailedToLoad(loc[p].page)
           ex == ExtractTable[loc[p].page.body]
           threw == ~failed /\ ex.threw
           quote == IF failed THEN CatchReturn ELSE ex.val
           v == VerdictOf(loc[p].err, loc[p].page)
       IN /\ IF threw
             THEN /\ pc' = [pc EXCEPT ![p] = "aborted"]
                  /\ loc' = [loc EXCEPT ![p] = NoLocals]
             ELSE /\ pc' = [pc EXCEPT ![p] = "loop"]
                  /\ loc' = [loc EXCEPT ![p].prices[loc[p].i + 1] = <<quote>>,
                                        ![p].i = @ + 1,
                                        ![p].n = 0, ![p].page = NoPage, ![p].err = FALSE]
          /\ verdict' = [verdict EXCEPT ![p] =
                 Append(@, [mode |-> v.mode, val |-> v.val, path |-> loc[p].url.path,
                            ret |-> IF threw THEN Undefined ELSE quote])]
          /\ lastGood' = IF v.mode = "ok"
                         THEN [lastGood EXCEPT ![loc[p].i + 2] = v.val]
                         ELSE lastGood
    /\ attempts' = [attempts EXCEPT ![p] = <<>>]
    /\ UNCHANGED <<sheetVars, clock, before, hist, probe>>

\* line 71: sheet.getRange(2, 6, lastrow-1, 1).setValues(prices)
WritePrices(p) ==
    /\ pc[p] = "write"
    /\ newPriceCol' = [r \in SheetRows |->
           IF \E j \in 0..(loc[p].lastrow - 2) : RangeRow(j) = r
           THEN loc[p].prices[(CHOOSE j \in 0..(loc[p].lastrow - 2) : RangeRow(j) = r) + 1][1]
           ELSE newPriceCol[r]]
    /\ loc' = [loc EXCEPT ![p].k = 0]
    /\ pc' = [pc EXCEPT ![p] = "buffer"]
    /\ hist' = [hist EXCEPT !.np = hist.run[p]]
    /\ UNCHANGED <<symbolCol, exchangeCol, bufferedCol, lastrowCell, timestampCell,
                   clock, verdict, before, attempts, lastGood, probe>>

\* one pass of the loop of lines 74-78, or its end
WriteBuffered(p) ==
    /\ pc[p] = "buffer"
    /\ IF loc[p].k < Len(loc[p].prices)
       THEN /\ bufferedCol' =
                  IF NotSentinel(loc[p].prices[loc[p].k + 1])
                  THEN [bufferedCol EXCEPT ![BufferRow(loc[p].k)] =
                            parseFloat(ArrayToString(loc[p].prices[loc[p].k + 1]))]
                  ELSE bufferedCol
            /\ loc' = [loc EXCEPT ![p].k = @ + 1]
            /\ pc' = pc
       ELSE /\ pc' = [pc EXCEPT ![p] = "done"]
            /\ loc' = [loc EXCEPT ![p] = NoLocals]
            /\ bufferedCol' = bufferedCol
    /\ UNCHANGED <<symbolCol, exchangeCol, newPriceCol, lastrowCell, timestampCell,
                   clock, verdict, before, attempts, lastGood, hist, probe>>

\* one execution at a time: the runs of one trigger, none overlapping
Next ==
    \/ BeginRun(1)
    \/ NextRow(1)
    \/ FetchAttempt(1)
    \/ FinishLookup(1)
    \/ WritePrices(1)
    \/ WriteBuffered(1)

Spec == Init /\ [][Next]_vars

\* two executions on the same sheet, their steps interleaved in any way (a
\* time trigger that fires while an earlier execution is still under way)
NextTwo ==
    \E p \in Procs :
        \/ BeginRun(p)
        \/ NextRow(p)
        \/ FetchAttempt(p)
        \/ FinishLookup(p)
        \/ WritePrices(p)
        \/ WriteBuffered(p)

SpecTwo == Init /\ [][NextTwo]_vars

\* ------------------------------------------- the functions on their own

\* symbols URLFromExchange is called with: those of the portfolio, one with
\* a period, the empty string
ProbeSymbols ==
    {CellToString(Portfolio[j].symbol) : j \in 1..Len(Portfolio)}
        \cup {<<"B", "R", "K", ".", "B">>, <<>>}

\* exchanges it is called with: the four of the switch, and others (an
\* unknown code, a known code in lower case, the empty string)
ProbeExchanges ==
    {<<"U", "S", "A">>, <<"S", "G", "X">>, <<"H", "K", "E", "X">>, <<"X", "S", "S", "C">>,
     <<"L", "S", "E">>, <<"s", "g", "x">>, <<>>}

\* the texts of at most n characters of the class [\d\.\,]
NumericTexts(n) == UNION {[1..k -> {"1", "5", ".", ","}] : k \in 0..n}

\* a page whose Trsdu span shows 1,234,567.50
PagePriceC ==
    <<"M", ">", "1", ",", "2", "3", "4", ",", "5", "6", "7", ".", "5", "0", "E">>

\* pieces of markup: Trsdu spans that show 1 and 5, one broken over two
\* lines, one with an inner tag, one without a number, one that shows -1,
\* one that is not closed; a span of another class, a lone closing tag, a
\* line end, text
MarkupPieces ==
    {<<"M", ">", "1", "E">>, <<"M", "x", ">", "5", "E">>, <<"M", "n", ">", "1", "E">>,
     <<"M", ">", "x", ">", "5", "E">>, <<"M", ">", "x", "E">>, <<"M", ">", "-", "1", "E">>,
     <<"M", ">", "1">>, <<"<", "x", ">", "7", "E">>, <<"E">>, <<"n">>, <<"x">>}

\* the pages made of at most n pieces
RECURSIVE Markups(_)
Markups(n) ==
    IF n = 0 THEN {<<>>}
    ELSE {<<>>} \cup {a \o b : a \in MarkupPieces, b \in Markups(n - 1)}

\* pages the extraction is applied to: a span around every numeric text, the
\* pages of the web above, and the pages made of the pieces
ProbeBodies ==
    {<<"M", "x", ">">> \o t \o <<"E">> : t \in NumericTexts(MaxText)}
        \cup Bodies \cup {PageError, PagePriceC} \cup Markups(MaxPieces)

InitPure ==
    /\ FreshSheet(1)
    /\ NoRunYet
    /\ \/ \E sy \in ProbeSymbols, ex \in ProbeExchanges :
              probe = [NoProbe EXCEPT !.fn = "URLFromExchange", !.symbol = sy, !.exchange = ex]
       \/ \E b \in ProbeBodies :
              probe = [NoProbe EXCEPT !.fn = "lookupQuote", !.html = b]

\* URLFromExchange(symbol, exchange), lines 85-109; Math.random() is drawn in it
CallURLFromExchange ==
    /\ probe.fn = "URLFromExchange"
    /\ ~probe.done
    /\ \E r \in 0..(RandomSteps - 1) :
           probe' = [probe EXCEPT !.done = TRUE,
                                  !.url = URLFromExchange(probe.symbol, probe.exchange, r)]
    /\ UNCHANGED <<sheetVars, clock, pc, loc, verdict, before, attempts, lastGood, hist>>

\* lookupQuote from line 141 on, for a page that has loaded
CallExtractQuote ==
    /\ probe.fn = "lookupQuote"
    /\ ~probe.done
    /\ probe' = [probe EXCEPT !.done = TRUE, !.quote = ExtractQuote(probe.html)]
    /\ UNCHANGED <<sheetVars, clock, pc, loc, verdict, before, attempts, lastGood, hist>>

NextPure ==
    \/ CallURLFromExchange
    \/ CallExtractQuote

SpecPure == InitPure /\ [][NextPure]_vars

\* ------------------------------------------------------------ the claims

\* the rows of the portfolio on the sheet
DataRows == 2..parseInt(lastrowCell)

\* the run of execution p has ended, by its return or by an exception
Ended(p) == pc[p] \in {"done", "aborted"}

\* the lookups of p's run, in call order: call j is of sheet row j + 1
Calls(p) == 1..Len(verdict[p])

\* what the quote URL of sheet row r holds after the fixed prefix
PathOfRow(r) == CellToString(symbolCol[r]) \o ExchangeSuffix(CellToString(exchangeCol[r]))

\* C1: after a run, every row whose lookup failed in it (for any reason)
\* has the buffered value it had before the run.
C1_FailedRowKeepsBuffered ==
    \A p \in Procs : Ended(p) =>
        \A j \in Calls(p) : verdict[p][j].mode # "ok" =>
            bufferedCol[j + 1] = before[p][j + 1]

\* C2: after a run, every row whose lookup succeeded in it with v >= 0 has
\* v in the buffered column and in the new_price column, whatever the other
\* rows' outcomes.
C2_GoodRowIsStored ==
    \A p \in Procs : Ended(p) =>
        \A j \in Calls(p) : (verdict[p][j].mode = "ok" /\ verdict[p][j].val.m >= 0) =>
            /\ bufferedCol[j + 1] = verdict[p][j].val
            /\ newPriceCol[j + 1] = verdict[p][j].val

\* C3: after a run, every row whose lookup failed in it has the sentinel -1
\* in the new_price column.
C3_FailedRowShowsSentinel ==
    \A p \in Procs : Ended(p) =>
        \A j \in Calls(p) : verdict[p][j].mode # "ok" => newPriceCol[j + 1] = Sentinel

\* C4: between runs, every row's buffered value is the initial one or the
\* price of the latest lookup of the row that did not fail, and never -1.
C4_BufferedIsLatestGood ==
    (\A p \in Procs : Resting(p)) =>
        \A r \in DataRows : bufferedCol[r] = lastGood[r] /\ bufferedCol[r] # Sentinel

\* C5: a failed lookup never aborts the run: every run that ends has looked
\* up every row, and has written both columns for every row that succeeded.
C5_FailureIsLocal ==
    \A p \in Procs : Ended(p) =>
        /\ pc[p] = "done"
        /\ Len(verdict[p]) = parseInt(lastrowCell) - 1
        /\ \A j \in Calls(p) : verdict[p][j].mode = "ok" =>
               /\ newPriceCol[j + 1] = verdict[p][j].val
               /\ bufferedCol[j + 1] = verdict[p][j].val

\* C6: lookupQuote returns exactly -1 for every failure mode; no exception
\* leaves it and no failure returns anything else.
C6_FailureReturnsSentinel ==
    \A p \in Procs : \A j \in Calls(p) :
        verdict[p][j].mode # "ok" => verdict[p][j].ret = Sentinel

\* C7: a second (or later) run in which every lookup fails leaves the
\* buffered column as the run before left it.
C7_AllFailedRunIsIdentity ==
    \A p \in Procs :
        (/\ Ended(p)
         /\ clock >= 2
         /\ \A j \in Calls(p) : verdict[p][j].mode # "ok")
        => bufferedCol = before[p]

\* C8: row order: once a run has written new_price, each portfolio row holds
\* there the value returned by the lookup of that row's own URL; a buffered
\* cell the run has changed holds that value too, at the end of the run every
\* row whose lookup returned something else than -1 does, and no cell outside
\* the portfolio rows is written.
C8_RowOrderPreserved ==
    \A p \in Procs : pc[p] \in {"buffer", "done"} =>
        /\ \A r \in DataRows : \E j \in Calls(p) :
               /\ verdict[p][j].path = PathOfRow(r)
               /\ newPriceCol[r] = verdict[p][j].ret
               /\ bufferedCol[r] # before[p][r] => bufferedCol[r] = verdict[p][j].ret
               /\ (pc[p] = "done" /\ verdict[p][j].ret # Sentinel)
                      => bufferedCol[r] = verdict[p][j].ret
        /\ \A r \in SheetRows \ DataRows :
               /\ newPriceCol[r] = (IF r = 1 THEN HeaderCell ELSE EmptyCell)
               /\ bufferedCol[r] = (IF r = 1 THEN HeaderCell ELSE EmptyCell)

\* a completed run of two rows: the first found a price, the second did not load
C8_Witness ==
    /\ pc[1] = "done"
    /\ Len(verdict[1]) = 2
    /\ verdict[1][1].mode = "ok"
    /\ verdict[1][2].mode = "exhausted"
    /\ bufferedCol[2] = verdict[1][1].val
    /\ newPriceCol[3] = Sentinel

\* C9: a buffered cell that held a finite price when a run began holds a
\* finite price when the run has ended.
C9_BufferedStaysNumeric ==
    \A p \in Procs : Ended(p) =>
        \A r \in DataRows : IsFinite(before[p][r]) => IsFinite(bufferedCol[r])

\* C10: within one lookup at most 3 fetches are made, and none after a fetch
\* that returned status 200.
C10_EarlyExit ==
    \A p \in Procs :
        /\ Len(attempts[p]) <= 3
        /\ \A a \in 1..(Len(attempts[p]) - 1) : attempts[p][a] # 200

\* the second fetch returned 200 and the loop is left
C10_Witness ==
    /\ pc[1] = "after"
    /\ attempts[1] = <<404, 200>>
    /\ loc[1].n = 1

\* the log of a lookup whose fetches all returned a status other than 200
AllRefused(log) == log # <<>> /\ \A a \in 1..Len(log) : log[a] \notin {0, 200}

\* C11: a lookup whose fetches all return a status other than 200, none
\* throwing, makes exactly 3 fetches and returns -1; the body of the last
\* page is not parsed.
C11_ThreeRefusalsReturnSentinel ==
    \A p \in Procs :
        /\ (pc[p] = "after" /\ AllRefused(attempts[p])) => Len(attempts[p]) = 3
        /\ (pc[p] = "fetch" /\ AllRefused(attempts[p])) => Len(attempts[p]) < 3
        /\ \A j \in Calls(p) : verdict[p][j].mode = "exhausted" =>
               verdict[p][j].ret = Num(-1, 0)

\* the first lookup of a run has returned -1 after three refusals, although
\* the last page shows a number
C11_Witness ==
    /\ pc[1] = "loop"
    /\ Len(verdict[1]) = 1
    /\ verdict[1][1].mode = "exhausted"
    /\ verdict[1][1].ret = Num(-1, 0)
    /\ loc[1].prices[1] = <<Num(-1, 0)>>
    /\ ExtractQuote(PageError).val = Num(404, 0)

\* C12: a lookup one of whose fetches throws returns -1, the value it
\* returns for a wrong status; no body is parsed.
C12_ThrowReturnsSentinel ==
    \A p \in Procs :
        /\ (Len(attempts[p]) > 0 /\ attempts[p][Len(attempts[p])] = 0) => loc[p].err
        /\ \A j \in Calls(p) : verdict[p][j].mode = "transport" =>
               verdict[p][j].ret = Num(-1, 0)

\* the first lookup of a run has returned -1 after a fetch that threw
C12_Witness ==
    /\ pc[1] = "loop"
    /\ Len(verdict[1]) = 1
    /\ verdict[1][1].mode = "transport"
    /\ loc[1].prices[1] = <<Num(-1, 0)>>

\* C13 as stated: a fetch that throws is one failed attempt among the 3, so
\* the loop is left only after a status 200 or after the third attempt.
C13_ThrowIsRetried ==
    \A p \in Procs : pc[p] = "after" =>
        \/ Len(attempts[p]) = 3
        \/ attempts[p][Len(attempts[p])] = 200

\* C13, amended: a fetch that throws is the last fetch of its lookup: the
\* loop is left at once, no further attempt is made.
C13_ThrowEndsFetch ==
    \A p \in Procs :
        /\ \A a \in 1..(Len(attempts[p]) - 1) : attempts[p][a] # 0
        /\ (Len(attempts[p]) > 0 /\ attempts[p][Len(attempts[p])] = 0) => pc[p] = "after"

\* the second fetch threw after a refusal and the loop is left, one attempt unused
C13_Witness ==
    /\ pc[1] = "after"
    /\ attempts[1] = <<404, 0>>
    /\ loc[1].n = 1
    /\ loc[1].err

\* C14, as stated: every run writes column F for all its rows, whatever the
\* rows' outcomes: when a run has ended, column F was last written by it and
\* no row of the portfolio is left without a value.
C14_EveryRunWritesNewPrice ==
    \A p \in Procs : Ended(p) =>
        /\ hist.np = hist.run[p]
        /\ \A r \in DataRows : newPriceCol[r] # EmptyCell

\* C15: a run writes the timestamp cell K2 once, when it begins, and at no
\* other step, whatever the outcomes of its rows.
C15_TimestampOncePerRun ==
    [][(timestampCell' # timestampCell) <=> (\E p \in Procs : Resting(p) /\ ~Resting(p)')]_vars

\* the second run has ended by the escaped exception, and K2 holds its start
C15_Witness ==
    /\ clock = 2
    /\ pc[1] = "aborted"
    /\ hist.ts = 2
    /\ timestampCell = Text(<<"2", ":", "0", "0", " ", "0">>)

\* C16, as stated: when no run is under way, the run that last wrote the
\* timestamp cell is the run that last wrote column F.
C16_TimestampMatchesPrices ==
    (\A p \in Procs : Resting(p)) => hist.ts = hist.np

\* C17: URLFromExchange returns the fixed prefix, then the symbol as given,
\* then the suffix of the exchange ("" for USA, ".SI" for SGX, ".HK" for
\* HKEX, ".SS" for XSSC, "" for every other code), then the query; it
\* returns for every input.
C17_UrlIsSymbolPlusSuffix ==
    (probe.fn = "URLFromExchange" /\ probe.done) =>
        LET suffix == IF probe.exchange = <<"S", "G", "X">> THEN <<".", "S", "I">>
                      ELSE IF probe.exchange = <<"H", "K", "E", "X">> THEN <<".", "H", "K">>
                      ELSE IF probe.exchange = <<"X", "S", "S", "C">> THEN <<".", "S", "S">>
                      ELSE <<>>
        IN /\ probe.url.path = probe.symbol \o suffix
           /\ SubSeq(probe.url.path, 1, Len(probe.symbol)) = probe.symbol

\* the URL of a symbol on an exchange the switch does not know
C17_Witness ==
    /\ probe.fn = "URLFromExchange"
    /\ probe.done
    /\ probe.symbol = <<"E", "S", "3">>
    /\ probe.exchange = <<"L", "S", "E">>
    /\ probe.url.path = <<"E", "S", "3">>

C19_EveryCommaStripped ==
    (probe.fn = "lookupQuote" /\ probe.done /\ ~probe.quote.threw) =>
        LET finalMatch == Regex2(Regex1(probe.html).text).text
            inner == SubSeq(finalMatch, 2, Len(finalMatch) - 1)
        IN probe.quote.val = parseFloat(SelectSeq(inner, LAMBDA c : c # ","))

\* C20: a run looks its rows up one after the other in the order of the
\* sheet: lookup j is of sheet row j + 1, the fetches under way are those of
\* the one row after the lookups that have returned, and when the loop is
\* over every row has been looked up once.
C20_RowsInOrder ==
    \A p \in Procs :
        /\ \A j \in Calls(p) : verdict[p][j].path = PathOfRow(j + 1)
        /\ pc[p] \in {"fetch", "after"} =>
               /\ loc[p].i = Len(verdict[p])
               /\ loc[p].url.path = PathOfRow(Len(verdict[p]) + 2)
        /\ attempts[p] # <<>> => pc[p] \in {"fetch", "after"}
        /\ pc[p] \in {"write", "buffer", "done"} => Len(verdict[p]) = parseInt(lastrowCell) - 1

\* the second row's fetches are under way after the first row's lookup,
\* of three fetches, has returned
C20_Witness ==
    /\ pc[1] = "fetch"
    /\ Len(verdict[1]) = 1
    /\ verdict[1][1].mode = "exhausted"
    /\ attempts[1] = <<404>>
    /\ loc[1].url.path = PathOfRow(3)

\* C21: in the write loop of a run, the buffered cell of a row is written if
\* and only if the result collected for the row is not -1, and it is written
\* with that result: a row the loop has passed holds its result, or, when
\* the result is -1, what it held before the run.
C21_OnlySentinelSuppresses ==
    \A p \in Procs : pc[p] \in {"buffer", "done"} =>
        \A j \in Calls(p) : (pc[p] = "done" \/ j <= loc[p].k) =>
            bufferedCol[j + 1] = IF verdict[p][j].ret = Num(-1, 0)
                                 THEN before[p][j + 1]
                                 ELSE verdict[p][j].ret

\* a second run has ended: the first row's lookup returned -1 and the row
\* keeps the price of the first run, the second row's price is written
C21_Witness ==
    /\ clock = 2
    /\ pc[1] = "done"
    /\ Len(verdict[1]) = 2
    /\ verdict[1][1].ret = Num(-1, 0)
    /\ IsFinite(before[1][2])
    /\ bufferedCol[2] = before[1][2]
    /\ verdict[1][2].mode = "ok"
    /\ bufferedCol[3] = verdict[1][2].val
    /\ bufferedCol[3] # before[1][3]

ClosedMarkers(html) ==
    {p \in 1..Len(html) : html[p] = "M" /\ \E q \in (p + 1)..Len(html) : html[q] = "E"}

NearestCloser(html, p) ==
    CHOOSE q \in (p + 1)..Len(html) :
        html[q] = "E" /\ \A j \in (p + 1)..(q - 1) : html[j] # "E"

StageTwo(sub) ==
    LET firsts == {a \in 1..Len(sub) :
                      /\ EndsWithGT(sub[a])
                      /\ \E b \in (a + 1)..Len(sub) :
                             /\ StartsWithLT(sub[b])
                             /\ \A j \in (a + 1)..(b - 1) : IsNumChar(sub[j])}
    IN IF firsts = {} THEN [threw |-> TRUE, val |-> NaN]
       ELSE LET a == CHOOSE x \in firsts : \A y \in firsts : x <= y
                b == CHOOSE c \in (a + 1)..Len(sub) : ~IsNumChar(sub[c])
            IN [threw |-> FALSE,
                val |-> parseFloat(ReplaceFirst(SubSeq(sub, a + 1, b - 1), ","))]

SameLineMarkers(html) ==
    {p \in ClosedMarkers(html) :
        \A j \in (p + 1)..(NearestCloser(html, p) - 1) : html[j] # "n"}

C24_OnlyThreePlacesWritten ==
    LET n == parseInt(lastrowCell) - 1
    IN /\ n \in 1..MaxRows
       /\ lastrowCell = Num(n + 1, 0)
       /\ \A r \in SheetRows :
              /\ symbolCol[r] = IF r = 1 THEN HeaderCell
                                ELSE IF r <= n + 1 THEN PortfolioRow(r).symbol ELSE EmptyCell
              /\ exchangeCol[r] = IF r = 1 THEN HeaderCell
                                  ELSE IF r <= n + 1 THEN PortfolioRow(r).exchange ELSE EmptyCell
              /\ r \notin DataRows =>
                     /\ newPriceCol[r] = IF r = 1 THEN HeaderCell ELSE EmptyCell
                     /\ bufferedCol[r] = IF r = 1 THEN HeaderCell ELSE EmptyCell

\* a run over one row has written K2, F2 and G2; the row below is empty
C24_Witness ==
    /\ pc[1] = "done"
    /\ parseInt(lastrowCell) = 2
    /\ timestampCell # EmptyCell
    /\ IsFinite(newPriceCol[2])
    /\ IsFinite(bufferedCol[2])
    /\ newPriceCol[2] # Sentinel
    /\ newPriceCol[3] = EmptyCell
    /\ bufferedCol[3] = EmptyCell

\* C25: as long as a run is looking rows up, and when it has stopped there,
\* column G is as it was when the run began and column F has not been
\* written by the run; the run writes only when the lookups of all its rows
\* have returned.
C25_NoWriteBeforeLastLookup ==
    \A p \in Procs :
        /\ pc[p] \in {"loop", "fetch", "after", "aborted"} =>
               /\ bufferedCol = before[p]
               /\ hist.np # hist.run[p]
        /\ pc[p] \in {"write", "buffer"} =>
               /\ Len(verdict[p]) = parseInt(lastrowCell) - 1
               /\ \A j \in Calls(p) : verdict[p][j].ret # Undefined
        /\ pc[p] = "write" => bufferedCol = before[p] /\ hist.np # hist.run[p]

\* a second run found a new price for the first row and stopped in the
\* lookup of the second: neither column shows it
C25_Witness ==
    /\ clock = 2
    /\ pc[1] = "aborted"
    /\ Len(verdict[1]) = 2
    /\ verdict[1][1].mode = "ok"
    /\ verdict[1][1].val # bufferedCol[2]
    /\ verdict[1][1].val # newPriceCol[2]
    /\ bufferedCol = before[1]
    /\ hist.np = 1

\* C26: when a run has completed, every row's cell of column F holds -1 or
\* what the row's cell of column G holds; and while the run writes column G,
\* column F has been written by it and the rows the loop has not reached
\* yet, those below the ones it has passed, are as they were.
C26_NewPriceAgreesWithBuffered ==
    \A p \in Procs :
        /\ pc[p] = "done" =>
               \A r \in DataRows :
                   newPriceCol[r] = Num(-1, 0) \/ newPriceCol[r] = bufferedCol[r]
        /\ pc[p] = "buffer" =>
               /\ hist.np = hist.run[p]
               /\ \A r \in DataRows :
                      r > loc[p].k + 1 => bufferedCol[r] = before[p][r]

\* a second run of two rows has completed: F2 shows -1 beside the earlier
\* price in G2, F3 and G3 show the same new price
C26_Witness ==
    /\ clock = 2
    /\ pc[1] = "done"
    /\ parseInt(lastrowCell) = 3
    /\ newPriceCol[2] = Num(-1, 0)
    /\ IsFinite(bufferedCol[2])
    /\ bufferedCol[2] # Num(-1, 0)
    /\ IsFinite(newPriceCol[3])
    /\ newPriceCol[3] = bufferedCol[3]
    /\ newPriceCol[3] # Num(-1, 0)

\* C27: the extraction never returns -1 nor any negative number: what it
\* returns, when it returns, is NaN or a number that is 0 or more.
C27_ExtractionNeverNegative ==
    (probe.fn = "lookupQuote" /\ probe.done /\ ~probe.quote.threw) =>
        /\ probe.quote.val # Num(-1, 0)
        /\ probe.quote.val.k = "num" => probe.quote.val.m >= 0

\* a page whose span shows -1: the extraction has returned no number
C27_Witness ==
    /\ probe.fn = "lookupQuote"
    /\ probe.done
    /\ probe.html = <<"M", ">", "-", "1", "E">>
    /\ probe.quote.threw

\* C28, as stated: when two executions, interleaved in any way, have both
\* completed a run, every row's buffered cell holds what it held before both
\* runs or a price that one of the two found for that row, and never -1.
C28_InterleavedRunsKeepBuffer ==
    (pc[1] = "done" /\ pc[2] = "done") =>
        LET first == CHOOSE p \in Procs : hist.run[p] = 1
        IN \A r \in DataRows :
               /\ bufferedCol[r] # Num(-1, 0)
               /\ \/ bufferedCol[r] = before[first][r]
                  \/ \E p \in Procs : /\ verdict[p][r - 1].mode = "ok"
                                      /\ bufferedCol[r] = verdict[p][r - 1].val

====
